---- MODULE Spec2Model ----
(***************************************************************************)
(* Catalyst Alert & Notification Engine.                                   *)
(*                                                                         *)
(* Part I  : AlertAgent  (src/src/agents/alert_agent.py), the saved-search *)
(*           sweep over the Supabase store.                                *)
(* Part II : WatchlistAgent (src/src/agents/watchlist_agent.py), the       *)
(*           watchlist sweep over the SQLite store (src/src/utils/         *)
(*           sqlite_db.py).                                                *)
(*                                                                         *)
(* Time in Part I is one clock shared by the application and the store,    *)
(* read in two ways.  `now` is its reading in hours, which decides the     *)
(* day and the quiet hours.  created_at and last_checked are compared only *)
(* with each other, and the clock's resolution is finer than the distance  *)
(* between two operations, so they are kept as their rank on the time      *)
(* line: the n-th catalyst row is created at 2n, and a reading of the      *)
(* clock taken while the feed holds n rows is 2n + 1 (ClockRank).          *)
(***************************************************************************)
EXTENDS Integers, Sequences, FiniteSets, TLC

(* ------------------------------ bounds -------------------------------- *)
MaxCatalysts == 2
MaxTime == 4
TicksPerDay == 4
MaxCap == 2
MaxDispatched == 3
MaxHalfSteps == 3
SweepGapHours == 12
MaxAlerts == 5
MaxTrialDay == 8
MaxOtherAlerts == 101

(* ----------------------------- vocabulary ----------------------------- *)
NULL == "NULL"
NoTime == -1
Workers == {1, 2}
Channels == {"email", "sms", "slack"}
UserIds == {"u1"}
SearchIds == {1, 2}
FaultKinds == {"dedup", "gate", "log", "update"}
\* What get_user_tier answers; NULL is an empty answer.
Tiers == {"free", "trial", "starter", "pro", NULL}

\* Rows the ingestion pipeline inserts into the catalysts table.
CatalystInputs ==
    { [ticker |-> "ABCD", phase |-> "Phase 3", market_cap |-> 2,
       indication |-> <<"O", "n", "c">>, enrollment |-> 450, completion_date |-> 2],
      [ticker |-> "EFGH", phase |-> "Phase 2", market_cap |-> 6,
       indication |-> <<"f", "l", "u">>, enrollment |-> 100, completion_date |-> 1],
      [ticker |-> NULL, phase |-> "Phase 3", market_cap |-> 2,
       indication |-> <<"o", "n", "c">>, enrollment |-> 450, completion_date |-> 1] }

\* query_params of a saved search; an absent key and a falsy value are the
\* same to find_new_matches, so absence is the falsy value of the type.
NoParams ==
    [phase |-> "", max_market_cap |-> 0, min_market_cap |-> 0,
     therapeutic_area |-> <<>>, min_enrollment |-> 0,
     completion_date_start |-> 0, completion_date_end |-> 0]

\* query_params a user can save: one filter each, and a therapeutic area
\* typed with an underscore.
QueryParamInputs ==
    { NoParams,
      [NoParams EXCEPT !.phase = "Phase 3"],
      [NoParams EXCEPT !.max_market_cap = 6],
      [NoParams EXCEPT !.min_market_cap = 6],
      [NoParams EXCEPT !.therapeutic_area = <<"O", "N", "C">>],
      [NoParams EXCEPT !.therapeutic_area = <<"o", "_", "c">>],
      [NoParams EXCEPT !.min_enrollment = 450],
      [NoParams EXCEPT !.completion_date_start = 2, !.completion_date_end = 2] }

\* The saved_searches rows the users created (src/src/ui/saved_searches.py).
SearchRows ==
    [s \in SearchIds |->
        IF s = 1
        THEN [id |-> 1, user_id |-> "u1",
              query_params |-> [NoParams EXCEPT !.phase = "Phase 3",
                                                !.therapeutic_area = <<"O", "N", "C">>],
              notification_channels |-> {"email"},
              last_checked |-> NoTime, active |-> TRUE]
        ELSE [id |-> 2, user_id |-> "u1",
              query_params |-> NoParams,
              notification_channels |-> {"email", "sms", "slack"},
              last_checked |-> NoTime, active |-> FALSE]]

VARIABLES
    now,                  \* the clock
    catalysts,            \* table catalysts: sequence of rows, id = position
    saved_searches,       \* table saved_searches: id -> row
    alert_notifications,  \* table alert_notifications: sequence of rows
    prefs,                \* table notification_preferences: user -> row
    tier,                 \* get_user_tier: user -> tier
    chanUp,               \* channels whose send currently succeeds
    mayFail,              \* store calls that can raise in this behaviour
    dispatched,           \* notifications delivered to the users
    pc,                   \* worker -> position in check_saved_searches
    queue,                \* worker -> searches still to process (fetched rows)
    cur,                  \* worker -> search being processed
    matches,              \* worker -> new_matches still to notify
    sent_channels,        \* worker -> sent_channels of the running send_notification
    stats,                \* worker -> stats of the running / last sweep
    \* history of the run, read by the properties only
    refused,              \* worker -> matches of the current search not delivered
    pending,              \* matches not delivered in an earlier, completed pass
    fav,                  \* worker -> the gate and e-mail were open all through the pass
    qlen,                 \* worker -> size of the feed when the search was queried
    matched,              \* worker -> ids find_new_matches returned for the search
    baseLen,              \* worker -> sizes of alert_notifications and of the feed
                          \*           at the sweep's start
    settled,              \* a sweep has completed and no catalyst was added since
                          \* it started
    gateErr,              \* worker -> a lookup of the gate raised in the running
                          \*           send_notification
    raised                \* worker -> searches of the sweep whose processing raised

VARIABLES
    wclock,               \* the clock of the watchlist host, in hours
    obs,                  \* position in ObservedDays
    halfSteps,            \* short steps of the clock taken so far
    catalysts_v2,         \* table catalysts_v2 joined with companies: sequence of rows
    sec_filings,          \* latest sec_filings row per ticker and filing type
    users_local,          \* table users_local: id -> row
    watchlist_alerts,     \* table watchlist_alerts: sequence of rows, id = position
    summary,              \* what the last run_daily_check returned
    \* history of the run, read by the properties only
    prevSweep,            \* the run_daily_check before the last one
    lastSweep             \* the last run_daily_check: when, and the table's size before

VARIABLES
    tnow,                 \* the clock of the account host, in days
    users_table,          \* table users: email -> row
    subscriptions,        \* table subscriptions: user id -> latest row
    trial_mgr,            \* the TrialManager object: user_email and self.user
    exc,                  \* what the last call on trial_mgr raised
    workflows,            \* trigger_workflow calls made
    trial_status          \* what the last get_trial_status returned

tvars == <<tnow, users_table, subscriptions, trial_mgr, exc, workflows, trial_status>>

wvars == <<wclock, obs, halfSteps, catalysts_v2, sec_filings, users_local,
           watchlist_alerts, summary, prevSweep, lastSweep>>

avars == <<now, catalysts, saved_searches, alert_notifications, prefs, tier, chanUp,
           mayFail, dispatched, pc, queue, cur, matches, sent_channels, stats,
           refused, pending, fav, qlen, matched, baseLen, settled, gateErr, raised>>

(* ------------------------------ helpers ------------------------------- *)
Range(f) == {f[i] : i \in DOMAIN f}

\* The channels some active search asks for.
RequestedChannels ==
    UNION {saved_searches[s].notification_channels :
                s \in {x \in SearchIds : saved_searches[x].active}}

Lower(ch) ==
    CASE ch = "O" -> "o" [] ch = "N" -> "n" [] ch = "C" -> "c"
      [] ch = "F" -> "f" [] ch = "L" -> "l" [] ch = "U" -> "u"
      [] OTHER -> ch

LowerSeq(t) == [i \in 1..Len(t) |-> Lower(t[i])]

\* pat occurs in text as a substring, letter case ignored.
ILikeContains(text, pat) ==
    \E k \in 0..(Len(text) - Len(pat)) :
        \A i \in 1..Len(pat) : Lower(text[k + i]) = Lower(pat[i])

RECURSIVE ILike(_, _)
\* PostgreSQL ILIKE, as PostgREST's ilike applies it: in the pattern "%" stands
\* for any run of characters, "_" for any one character, and any other
\* character for itself, letter case ignored.
ILike(text, pattern) ==
    IF pattern = <<>> THEN text = <<>>
    ELSE IF Head(pattern) = "%"
         THEN \E k \in 0..Len(text) :
                ILike(SubSeq(text, k + 1, Len(text)), Tail(pattern))
    ELSE /\ text # <<>>
         /\ Head(pattern) = "_" \/ Lower(Head(text)) = Lower(Head(pattern))
         /\ ILike(Tail(text), Tail(pattern))

\* find_new_matches, line 206: f"%{search_params['therapeutic_area']}%".
ContainsPattern(keyword) == <<"%">> \o keyword \o <<"%">>

\* datetime.now() as a rank among the created_at stamps of the feed.
ClockRank == 2 * Len(catalysts) + 1

DayOf(t) == t \div TicksPerDay
HourOf(t) == t % TicksPerDay

\* The outcomes of a store call: it returns, or (when it can fail) raises.
Outcomes(kind) == IF kind \in mayFail THEN {TRUE, FALSE} ELSE {TRUE}

(* ------------------- AlertAgent: pure parts of the code ---------------- *)
\* find_new_matches: the rows the query selects (before ORDER BY).
FindNewMatches(search_params, last_checked) ==
    {i \in 1..Len(catalysts) :
        LET c == catalysts[i] IN
        /\ (last_checked # NoTime => c.created_at >= last_checked)
        /\ (search_params.phase # "" => c.phase = search_params.phase)
        /\ (search_params.max_market_cap # 0
                => c.market_cap < search_params.max_market_cap)
        /\ (search_params.min_market_cap # 0
                => c.market_cap >= search_params.min_market_cap)
        /\ (search_params.therapeutic_area # <<>>
                => ILike(c.indication, ContainsPattern(search_params.therapeutic_area)))
        /\ (search_params.min_enrollment # 0
                => c.enrollment >= search_params.min_enrollment)
        /\ (search_params.completion_date_start # 0
                => c.completion_date >= search_params.completion_date_start)
        /\ (search_params.completion_date_end # 0
                => c.completion_date <= search_params.completion_date_end)
        /\ c.ticker # NULL}

RECURSIVE OrderByCompletion(_)
\* ORDER BY completion_date ASC: every order the store may return (ties free).
OrderByCompletion(S) ==
    IF S = {} THEN {<<>>}
    ELSE LET lo == {x \in S : \A y \in S :
                        catalysts[x].completion_date <= catalysts[y].completion_date}
         IN UNION {{<<x>> \o t : t \in OrderByCompletion(S \ {x})} : x \in lo}

\* _fetch_active_searches: the active rows, as fetched (last_checked is a copy).
RECURSIVE FetchActiveSearches(_)
FetchActiveSearches(ids) ==
    IF ids = {} THEN <<>>
    ELSE LET s == CHOOSE x \in ids : \A y \in ids : x <= y
         IN (IF saved_searches[s].active THEN <<saved_searches[s]>> ELSE <<>>)
            \o FetchActiveSearches(ids \ {s})

\* The query without the filter on active.
FetchedSearches_All(ok) ==
    IF ok THEN [i \in 1..Cardinality(SearchIds) |-> saved_searches[i]] ELSE <<>>

\* _fetch_active_searches, lines 585-603: the list, or [] when the query raised.
FetchedSearches(ok) == IF ok THEN FetchActiveSearches(SearchIds) ELSE <<>>

NotificationsOf(search_id, catalyst_id) ==
    {i \in DOMAIN alert_notifications :
        /\ alert_notifications[i].saved_search_id = search_id
        /\ alert_notifications[i].catalyst_id = catalyst_id}

\* _is_duplicate_alert: a row exists; False when the lookup raises.
IsDuplicateAlert(search_id, catalyst_id, ok) ==
    IF ok THEN NotificationsOf(search_id, catalyst_id) # {} ELSE FALSE

\* RPC can_receive_alert: fewer notifications today than max_alerts_per_day.
CanReceiveAlertAt(t, notifs, user_id) ==
    Cardinality({i \in DOMAIN notifs :
                    /\ notifs[i].user_id = user_id
                    /\ DayOf(notifs[i].notification_sent_at) = DayOf(t)})
        < prefs[user_id].max_alerts_per_day

CanReceiveAlert(user_id) == CanReceiveAlertAt(now, alert_notifications, user_id)

\* RPC is_quiet_hours: local time within [quiet_start, quiet_end), which may
\* wrap around midnight; no window when either end is unset.
IsQuietHoursAt(t, user_id) ==
    LET qs == prefs[user_id].quiet_hours_start
        qe == prefs[user_id].quiet_hours_end
        h == HourOf(t)
    IN IF qs = NoTime \/ qe = NoTime THEN FALSE
       ELSE IF qs <= qe THEN qs <= h /\ h < qe
       ELSE h >= qs \/ h < qe

IsQuietHours(user_id) == IsQuietHoursAt(now, user_id)

\* _can_send_notification, lines 632-642: a lookup of the gate raised.  The
\* quiet-hours lookup is made only when the rate-limit lookup allowed.
GateRaised(user_id, okRate, okQuiet) ==
    ~okRate \/ (CanReceiveAlert(user_id) /\ ~okQuiet)

\* A lookup that raises denies.
CanSendNotification_FailClosed(user_id, okRate, okQuiet) ==
    IF ~okRate THEN "cap"
    ELSE IF ~CanReceiveAlert(user_id) THEN "cap"
    ELSE IF ~okQuiet THEN "quiet"
    ELSE IF IsQuietHours(user_id) THEN "quiet"
    ELSE "allow"

\* _can_send_notification: "allow", or why not; allows when a lookup raises.
CanSendNotification(user_id, okRate, okQuiet) ==
    IF ~okRate THEN "allow"
    ELSE IF ~CanReceiveAlert(user_id) THEN "cap"
    ELSE IF ~okQuiet THEN "allow"
    ELSE IF IsQuietHours(user_id) THEN "quiet"
    ELSE "allow"

\* _get_user_tier
GetUserTier(user_id) == IF tier[user_id] = NULL THEN "free" ELSE tier[user_id]

\* _send_email / _send_sms / _send_slack: True iff credentials, destination and
\* transport all work at the moment of the call.
SendEmail(user_id) == "email" \in chanUp
SendSms(user_id) == "sms" \in chanUp
SendSlack(user_id) == "slack" \in chanUp

\* The sends stop at the first channel that fails.
AttemptedChannels_StopAtFailure(user_id, channels) ==
    LET user_tier == GetUserTier(user_id) IN
    (IF "email" \in channels THEN {"email"} ELSE {})
    \cup (IF "sms" \in channels /\ user_tier = "pro"
              /\ ("email" \in channels => SendEmail(user_id))
          THEN {"sms"} ELSE {})
    \cup (IF "slack" \in channels /\ user_tier = "pro"
              /\ ("email" \in channels => SendEmail(user_id))
              /\ ("sms" \in channels => SendSms(user_id))
          THEN {"slack"} ELSE {})

\* send_notification, lines 266-288: the channels whose send is called.
AttemptedChannels(user_id, channels) ==
    LET user_tier == GetUserTier(user_id) IN
    (IF "email" \in channels THEN {"email"} ELSE {})
    \cup (IF "sms" \in channels /\ user_tier = "pro" THEN {"sms"} ELSE {})
    \cup (IF "slack" \in channels /\ user_tier = "pro" THEN {"slack"} ELSE {})

\* The tier is not consulted.
SentChannels_IgnoresTier(user_id, channels) ==
    (IF "email" \in channels /\ SendEmail(user_id) THEN {"email"} ELSE {})
    \cup (IF "sms" \in channels /\ SendSms(user_id) THEN {"sms"} ELSE {})
    \cup (IF "slack" \in channels /\ SendSlack(user_id) THEN {"slack"} ELSE {})

\* send_notification, lines 266-288: the channels that were sent.
SentChannels(user_id, channels) ==
    LET user_tier == GetUserTier(user_id) IN
    (IF "email" \in channels /\ SendEmail(user_id) THEN {"email"} ELSE {})
    \cup (IF "sms" \in channels /\ user_tier = "pro" /\ SendSms(user_id)
          THEN {"sms"} ELSE {})
    \cup (IF "slack" \in channels /\ user_tier = "pro" /\ SendSlack(user_id)
          THEN {"slack"} ELSE {})

(* --------------------------- history helpers --------------------------- *)
FavAt(t, up, notifs) ==
    \A u \in UserIds :
        /\ ~IsQuietHoursAt(t, u)
        /\ CanReceiveAlertAt(t, notifs, u)
        /\ "email" \in up

\* fav after a step: still favourable for every running sweep.
FavNext(t, up, notifs) ==
    [w \in Workers |-> fav[w] /\ (pc[w] # "idle" => FavAt(t, up, notifs))]

\* Control after one send_notification call returns: the next match, or
\* _update_last_checked when the for loop over new_matches is exhausted.
AfterMatch(w) == IF Len(matches[w]) > 1 THEN "send" ELSE "update"

(* ----------------------- AlertAgent: the state machine ----------------- *)
NoSearch == [id |-> 0, user_id |-> "u1", query_params |-> NoParams,
             notification_channels |-> {}, last_checked |-> NoTime, active |-> FALSE]

NoBase == [notifications |-> 0, feed |-> 0]

NoStats == [searches_checked |-> 0, matches_found |-> 0,
            notifications_sent |-> 0, errors |-> 0]

\* The state after construction: empty feed and notification log, the saved
\* searches never checked, one preferences row per user.
InitAlertWith(rows) ==
    /\ now = 0
    /\ catalysts = <<>>
    /\ saved_searches = rows
    /\ alert_notifications = <<>>
    /\ prefs \in [UserIds -> {[max_alerts_per_day |-> m, quiet_hours_start |-> qs,
                                quiet_hours_end |-> qe] :
                                m \in 1..MaxCap,
                                qs \in {NoTime, 1},
                                qe \in {NoTime, 2}}]
    /\ \A u \in UserIds :
            (prefs[u].quiet_hours_start = NoTime) = (prefs[u].quiet_hours_end = NoTime)
    /\ chanUp = Channels
    /\ dispatched = <<>>
    /\ pc = [w \in Workers |-> "idle"]
    /\ queue = [w \in Workers |-> <<>>]
    /\ cur = [w \in Workers |-> NoSearch]
    /\ matches = [w \in Workers |-> <<>>]
    /\ sent_channels = [w \in Workers |-> {}]
    /\ stats = [w \in Workers |-> NoStats]
    /\ refused = [w \in Workers |-> {}]
    /\ pending = {}
    /\ fav = [w \in Workers |-> FALSE]
    /\ qlen = [w \in Workers |-> 0]
    /\ matched = [w \in Workers |-> {}]
    /\ baseLen = [w \in Workers |-> NoBase]
    /\ settled = FALSE
    /\ gateErr = [w \in Workers |-> FALSE]
    /\ raised = [w \in Workers |-> {}]

InitAlert == InitAlertWith(SearchRows)

\* The ingestion pipeline inserts a catalyst row; created_at is the clock.
AddCatalyst ==
    /\ Len(catalysts) < MaxCatalysts
    /\ \E row \in CatalystInputs :
        catalysts' = Append(catalysts,
            [id |-> Len(catalysts) + 1, ticker |-> row.ticker, phase |-> row.phase,
             market_cap |-> row.market_cap, indication |-> row.indication,
             enrollment |-> row.enrollment, completion_date |-> row.completion_date,
             created_at |-> 2 * (Len(catalysts) + 1)])
    /\ settled' = FALSE
    /\ UNCHANGED <<tvars, wvars, now, fav, saved_searches, alert_notifications, prefs, tier, chanUp, mayFail,
                   dispatched, pc, queue, cur, matches, sent_channels, stats,
                   refused, pending, qlen, matched, baseLen, gateErr, raised>>

\* An hour passes.  A sweep is short against the hour: the hour changes
\* between sweeps.
Tick ==
    /\ now < MaxTime
    /\ \A w \in Workers : pc[w] = "idle"
    /\ now' = now + 1
    /\ fav' = FavNext(now', chanUp, alert_notifications)
    /\ UNCHANGED <<tvars, wvars, catalysts, saved_searches, alert_notifications, prefs, tier, chanUp,
                   mayFail, dispatched, pc, queue, cur, matches, sent_channels, stats,
                   refused, pending, qlen, matched, baseLen, settled, gateErr, raised>>

\* A channel's transport, credential or destination breaks or is restored.
ChannelChange ==
    /\ \E ch \in RequestedChannels :
        chanUp' = IF ch \in chanUp THEN chanUp \ {ch} ELSE chanUp \cup {ch}
    /\ fav' = FavNext(now, chanUp', alert_notifications)
    /\ UNCHANGED <<tvars, wvars, now, catalysts, saved_searches, alert_notifications, prefs, tier,
                   mayFail, dispatched, pc, queue, cur, matches, sent_channels, stats,
                   refused, pending, qlen, matched, baseLen, settled, gateErr, raised>>

\* The exception of one search ends the loop.
RemainingAfterRaise_Abort(w) == <<>>

\* check_saved_searches, lines 154-157: `continue`, the searches still to do.
RemainingAfterRaise(w) == Tail(queue[w])

\* check_saved_searches, lines 109-120: reset stats, fetch the active searches.
StartSweep(w) ==
    /\ pc[w] = "idle"
    /\ Len(dispatched) < MaxDispatched
    /\ stats' = [stats EXCEPT ![w] = NoStats]
    /\ \E ok \in Outcomes("fetch") :
        queue' = [queue EXCEPT ![w] = FetchedSearches(ok)]
    /\ pc' = [pc EXCEPT ![w] = "loop"]
    /\ baseLen' = [baseLen EXCEPT ![w] = [notifications |-> Len(alert_notifications),
                                          feed |-> Len(catalysts)]]
    /\ fav' = [fav EXCEPT ![w] = FavAt(now, chanUp, alert_notifications)]
    /\ UNCHANGED <<tvars, wvars, now, catalysts, saved_searches, alert_notifications, prefs, tier,
                   chanUp, mayFail, dispatched, cur, matches, sent_channels,
                   refused, pending, qlen, matched, settled, gateErr, raised>>

\* check_saved_searches, lines 122-136: take the next search, count it, run
\* find_new_matches with the fetched last_checked, count the matches.
\* When the body of the loop raises (lines 154-157) the search is counted as
\* an error and the loop continues with the next search.
FindMatches(w) ==
    /\ pc[w] = "loop"
    /\ queue[w] # <<>>
    /\ \E ok \in Outcomes("search") :
        LET search == Head(queue[w])
            found == IF ok THEN FindNewMatches(search.query_params, search.last_checked)
                     ELSE {}
        IN /\ \E new_matches \in OrderByCompletion(found) :
                matches' = [matches EXCEPT ![w] = new_matches]
           /\ cur' = [cur EXCEPT ![w] = search]
           /\ queue' = [queue EXCEPT ![w] = IF ok THEN Tail(queue[w])
                                            ELSE RemainingAfterRaise(w)]
           /\ stats' = [stats EXCEPT
                        ![w].searches_checked = @ + 1,
                        ![w].matches_found = @ + Cardinality(found),
                        ![w].errors = IF ok THEN @ ELSE @ + 1]
           /\ pc' = [pc EXCEPT ![w] = IF ~ok THEN "loop"
                                      ELSE IF found = {} THEN "update" ELSE "send"]
           /\ matched' = [matched EXCEPT ![w] = found]
           /\ raised' = [raised EXCEPT ![w] = IF ok THEN @ ELSE @ \cup {search.id}]
    /\ qlen' = [qlen EXCEPT ![w] = Len(catalysts)]
    /\ refused' = [refused EXCEPT ![w] = {}]
    /\ UNCHANGED <<tvars, wvars, now, catalysts, saved_searches, alert_notifications, prefs, tier,
                   chanUp, mayFail, dispatched, sent_channels, pending, fav, baseLen,
                   settled, gateErr>>

\* send_notification, lines 253-256: the dedup check for the next match.
DedupCheck(w) ==
    /\ pc[w] = "send"
    /\ \E ok \in Outcomes("dedup") :
        IF IsDuplicateAlert(cur[w].id, Head(matches[w]), ok)
        THEN /\ pc' = [pc EXCEPT ![w] = AfterMatch(w)]
             /\ matches' = [matches EXCEPT ![w] = Tail(@)]
        ELSE /\ pc' = [pc EXCEPT ![w] = "gate"]
             /\ matches' = matches
    /\ UNCHANGED <<tvars, wvars, now, catalysts, saved_searches, alert_notifications, prefs, tier,
                   chanUp, mayFail, dispatched, queue, cur, sent_channels, stats,
                   refused, pending, fav, qlen, matched, baseLen, settled, gateErr, raised>>

\* The gate's verdict is computed but a denial does not return.
GateCheck_Proceeds(w) ==
    /\ pc[w] = "gate"
    /\ \E okRate \in Outcomes("gate"), okQuiet \in Outcomes("gate") :
        LET verdict == CanSendNotification(cur[w].user_id, okRate, okQuiet) IN
        /\ refused' = IF verdict = "allow" THEN refused
                      ELSE [refused EXCEPT ![w] =
                            @ \cup {[catalyst |-> Head(matches[w]), why |-> verdict,
                                     attempted |-> {}]}]
        /\ gateErr' = [gateErr EXCEPT ![w] = GateRaised(cur[w].user_id, okRate, okQuiet)]
    /\ pc' = [pc EXCEPT ![w] = "dispatch"]
    /\ UNCHANGED <<tvars, wvars, now, catalysts, saved_searches, alert_notifications, prefs, tier,
                   chanUp, mayFail, dispatched, queue, cur, matches, sent_channels,
                   stats, pending, fav, qlen, matched, baseLen, settled, raised>>

\* send_notification, lines 258-261: the rate-limit / quiet-hours gate.
GateCheck(w) ==
    /\ pc[w] = "gate"
    /\ \E okRate \in Outcomes("gate"), okQuiet \in Outcomes("gate") :
        LET verdict == CanSendNotification(cur[w].user_id, okRate, okQuiet) IN
        /\ gateErr' = [gateErr EXCEPT ![w] = GateRaised(cur[w].user_id, okRate, okQuiet)]
        /\ IF verdict = "allow"
           THEN /\ pc' = [pc EXCEPT ![w] = "dispatch"]
                /\ UNCHANGED <<matches, refused>>
           ELSE /\ pc' = [pc EXCEPT ![w] = AfterMatch(w)]
                /\ matches' = [matches EXCEPT ![w] = Tail(@)]
                /\ refused' = [refused EXCEPT ![w] =
                                @ \cup {[catalyst |-> Head(matches[w]), why |-> verdict,
                                         attempted |-> {}]}]
    /\ UNCHANGED <<tvars, wvars, now, catalysts, saved_searches, alert_notifications, prefs, tier,
                   chanUp, mayFail, dispatched, queue, cur, sent_channels, stats,
                   pending, fav, qlen, matched, baseLen, settled, raised>>

\* send_notification, lines 263-288 and 304: format, tier, one send per
\* requested channel; False when no channel was sent.
Dispatch(w) ==
    /\ pc[w] = "dispatch"
    /\ LET sc == SentChannels(cur[w].user_id, cur[w].notification_channels)
           tried == AttemptedChannels(cur[w].user_id, cur[w].notification_channels)
       IN
        IF sc # {}
        THEN /\ dispatched' = Append(dispatched,
                    [search |-> cur[w].id, catalyst |-> Head(matches[w]),
                     user_id |-> cur[w].user_id, channels |-> sc,
                     attempted |-> tried, up |-> chanUp, at |-> now])
             /\ sent_channels' = [sent_channels EXCEPT ![w] = sc]
             /\ pc' = [pc EXCEPT ![w] = "log"]
             /\ UNCHANGED <<matches, refused>>
        ELSE /\ pc' = [pc EXCEPT ![w] = AfterMatch(w)]
             /\ matches' = [matches EXCEPT ![w] = Tail(@)]
             /\ refused' = [refused EXCEPT ![w] =
                                @ \cup {[catalyst |-> Head(matches[w]), why |-> "failed",
                                         attempted |-> tried]}]
             /\ UNCHANGED <<dispatched, sent_channels>>
    /\ gateErr' = [gateErr EXCEPT ![w] = FALSE]
    /\ UNCHANGED <<tvars, wvars, now, catalysts, saved_searches, alert_notifications, prefs, tier,
                   chanUp, mayFail, queue, cur, stats, pending, fav, qlen, matched,
                   baseLen, settled, raised>>

\* channels_used is the list of channels the search asked for.
LogNotificationRows_Requested(w, ok) ==
    IF ok
    THEN Append(alert_notifications,
            [saved_search_id |-> cur[w].id, catalyst_id |-> Head(matches[w]),
             user_id |-> cur[w].user_id, channels_used |-> cur[w].notification_channels,
             notification_sent_at |-> now,
             user_acknowledged |-> FALSE, acknowledged_at |-> NoTime])
    ELSE alert_notifications

\* _log_notification: insert the row; a failed insert is logged and dropped.
LogNotificationRows(w, ok) ==
    IF ok
    THEN Append(alert_notifications,
            [saved_search_id |-> cur[w].id, catalyst_id |-> Head(matches[w]),
             user_id |-> cur[w].user_id, channels_used |-> sent_channels[w],
             notification_sent_at |-> now,
             user_acknowledged |-> FALSE, acknowledged_at |-> NoTime])
    ELSE alert_notifications

\* send_notification, lines 290-302, and check_saved_searches, lines 148-149.
LogNotification(w) ==
    /\ pc[w] = "log"
    /\ \E ok \in Outcomes("log") :
        alert_notifications' = LogNotificationRows(w, ok)
    /\ stats' = [stats EXCEPT ![w].notifications_sent = @ + 1]
    /\ sent_channels' = [sent_channels EXCEPT ![w] = {}]
    /\ pc' = [pc EXCEPT ![w] = AfterMatch(w)]
    /\ matches' = [matches EXCEPT ![w] = Tail(@)]
    /\ fav' = FavNext(now, chanUp, alert_notifications')
    /\ UNCHANGED <<tvars, wvars, now, catalysts, saved_searches, prefs, tier, chanUp, mayFail,
                   dispatched, queue, cur, refused, pending, qlen, matched, baseLen,
                   settled, gateErr, raised>>

\* last_checked is never advanced.
UpdateLastCheckedRows_NoWrite(search_id, ok) == saved_searches

\* _update_last_checked: write the clock; a failed update is logged and dropped.
UpdateLastCheckedRows(search_id, ok) ==
    IF ok THEN [saved_searches EXCEPT ![search_id].last_checked = ClockRank]
    ELSE saved_searches

\* last_checked is written only when no match of the pass was left unsent.
UpdateLastChecked_OnlyOnSuccess(w) ==
    /\ pc[w] = "update"
    /\ \E ok \in Outcomes("update") :
        saved_searches' = IF refused[w] = {} THEN UpdateLastCheckedRows(cur[w].id, ok)
                          ELSE saved_searches
    /\ pc' = [pc EXCEPT ![w] = "loop"]
    /\ pending' = pending \cup
            {[search |-> cur[w].id, catalyst |-> r.catalyst, why |-> r.why] :
                r \in refused[w]}
    /\ UNCHANGED <<tvars, wvars, now, fav, catalysts, alert_notifications, prefs, tier, chanUp,
                   mayFail, dispatched, queue, cur, matches, sent_channels, stats,
                   refused, qlen, matched, baseLen, settled, gateErr, raised>>

\* check_saved_searches, lines 151-152.
UpdateLastChecked(w) ==
    /\ pc[w] = "update"
    /\ \E ok \in Outcomes("update") :
        saved_searches' = UpdateLastCheckedRows(cur[w].id, ok)
    /\ pc' = [pc EXCEPT ![w] = "loop"]
    /\ pending' = pending \cup
            {[search |-> cur[w].id, catalyst |-> r.catalyst, why |-> r.why] :
                r \in refused[w]}
    /\ UNCHANGED <<tvars, wvars, now, fav, catalysts, alert_notifications, prefs, tier, chanUp,
                   mayFail, dispatched, queue, cur, matches, sent_channels, stats,
                   refused, qlen, matched, baseLen, settled, gateErr, raised>>

\* _toggle_search (src/src/ui/saved_searches.py): the user pauses or resumes a
\* saved search.
ToggleSearch ==
    /\ \E search_id \in SearchIds, active \in BOOLEAN :
        saved_searches' = [saved_searches EXCEPT ![search_id].active = active]
    /\ UNCHANGED <<tvars, wvars, now, fav, catalysts, alert_notifications, prefs, tier, chanUp,
                   mayFail, dispatched, pc, queue, cur, matches, sent_channels, stats,
                   refused, pending, qlen, matched, baseLen, settled, gateErr, raised>>

\* _acknowledge_notification (src/src/pages/alerts.py): the update of the row
\* with the id.
AcknowledgeNotificationRows(notification_id) ==
    [alert_notifications EXCEPT ![notification_id].user_acknowledged = TRUE,
                                ![notification_id].acknowledged_at = now]

\* The user marks a notification of the alert history as read.
AcknowledgeNotification ==
    /\ \E notification_id \in DOMAIN alert_notifications :
        alert_notifications' = AcknowledgeNotificationRows(notification_id)
    /\ UNCHANGED <<tvars, wvars, now, catalysts, saved_searches, prefs, tier, chanUp, mayFail,
                   dispatched, pc, queue, cur, matches, sent_channels, stats,
                   refused, pending, fav, qlen, matched, baseLen, settled, gateErr, raised>>

\* check_saved_searches, lines 159-162: the loop is over, return stats.
FinishSweep(w) ==
    /\ pc[w] = "loop"
    /\ queue[w] = <<>>
    /\ pc' = [pc EXCEPT ![w] = "idle"]
    /\ cur' = [cur EXCEPT ![w] = NoSearch]
    /\ stats' = [stats EXCEPT ![w] = NoStats]
    /\ refused' = [refused EXCEPT ![w] = {}]
    /\ fav' = [fav EXCEPT ![w] = FALSE]
    /\ qlen' = [qlen EXCEPT ![w] = 0]
    /\ matched' = [matched EXCEPT ![w] = {}]
    /\ baseLen' = [baseLen EXCEPT ![w] = NoBase]
    /\ settled' = (Len(catalysts) = baseLen[w].feed)
    /\ raised' = [raised EXCEPT ![w] = {}]
    /\ UNCHANGED <<tvars, wvars, now, catalysts, saved_searches, alert_notifications, prefs, tier,
                   chanUp, mayFail, dispatched, queue, matches, sent_channels,
                   pending, gateErr>>

(* ------------------ WatchlistAgent: vocabulary and inputs -------------- *)
\* ALERT_TRIGGERS["date_window"]
Thresholds == <<90, 30, 14, 7>>

SeverityMap ==
    [th \in {90, 30, 14, 7} |->
        CASE th = 90 -> "info" [] th = 30 -> "info"
          [] th = 14 -> "warning" [] th = 7 -> "critical"]

\* days_ahead of the get_all_catalysts call in _check_date_windows
DaysAhead == 90
\* limit of the get_user_alerts call in _alert_already_sent
AlertsLimit == 100
\* timedelta(hours=24) in _alert_already_sent
DedupWindowHours == 24
\* cash_runway < 6 in _check_red_flags
MinRunwayMonths == 6

FilingTypes == <<"10-Q", "10-K">>
WatchUserIds == {1, 2}
Tickers == {"ABCD", "EFGH"}

\* The days-until values at which the sweeps observe the first catalyst.
ObservedDays == <<95, 65, 25, 10, 5>>

\* None in an integer column or field.
NoInt == -1

\* A row of sec_filings as get_latest_sec_filing returns it: the fields the
\* red_flag conditions of ALERT_TRIGGERS name.
Filing(runway, hold, ceo, concern) ==
    [found |-> TRUE, cash_runway_months |-> runway, clinical_hold |-> hold,
     ceo_departure |-> ceo, going_concern_warning |-> concern]

NoFiling == [found |-> FALSE, cash_runway_months |-> NoInt, clinical_hold |-> FALSE,
             ceo_departure |-> FALSE, going_concern_warning |-> FALSE]

\* The filings on record for a ticker: a 10-Q and a 10-K, either may be absent,
\* either may lack a cash runway, and a filing may carry the other flags.
FilingInputs ==
    { [q \in {"10-Q", "10-K"} |-> NoFiling],
      [q \in {"10-Q", "10-K"} |->
          IF q = "10-Q" THEN Filing(4, FALSE, FALSE, FALSE) ELSE NoFiling],
      [q \in {"10-Q", "10-K"} |->
          IF q = "10-K" THEN Filing(4, FALSE, FALSE, FALSE) ELSE NoFiling],
      [q \in {"10-Q", "10-K"} |->
          IF q = "10-Q" THEN Filing(8, FALSE, FALSE, FALSE)
          ELSE Filing(4, FALSE, FALSE, FALSE)],
      [q \in {"10-Q", "10-K"} |->
          IF q = "10-Q" THEN Filing(NoInt, FALSE, FALSE, FALSE)
          ELSE Filing(4, FALSE, FALSE, FALSE)],
      [q \in {"10-Q", "10-K"} |->
          IF q = "10-Q" THEN Filing(8, TRUE, FALSE, FALSE) ELSE NoFiling],
      [q \in {"10-Q", "10-K"} |->
          IF q = "10-Q" THEN Filing(4, FALSE, TRUE, TRUE) ELSE NoFiling] }

\* The contents of catalysts_v2 (catalyst_date as a day number).
CatalystV2Inputs ==
    { << [id |-> 1, ticker |-> "ABCD", catalyst_date |-> ObservedDays[1]] >>,
      << [id |-> 1, ticker |-> "ABCD", catalyst_date |-> ObservedDays[1]],
         [id |-> 2, ticker |-> "ABCD", catalyst_date |-> 70] >>,
      << [id |-> 1, ticker |-> "ABCD", catalyst_date |-> ObservedDays[1]],
         [id |-> 2, ticker |-> "EFGH", catalyst_date |-> 70] >> }

\* users_local: user 1 watches ABCD, user 2 has an empty watchlist.
UserRows ==
    [u \in WatchUserIds |->
        [id |-> u, watchlist |-> IF u = 1 THEN <<"ABCD">> ELSE <<>>]]

(* ------------------ WatchlistAgent: pure parts of the code ------------- *)
\* datetime.now().date() and SQLite date('now'), as a day number.
Today == wclock \div 24

\* The created_at the store gives a row inserted now (column default).
CurrentTimestamp == wclock

RECURSIVE OrderByDate(_)
\* ORDER BY catalyst_date ASC over row positions (ties free).
OrderByDate(S) ==
    IF S = {} THEN {<<>>}
    ELSE LET lo == {x \in S : \A y \in S :
                        catalysts_v2[x].catalyst_date <= catalysts_v2[y].catalyst_date}
         IN UNION {{<<catalysts_v2[x]>> \o t : t \in OrderByDate(S \ {x})} : x \in lo}

\* get_all_catalysts without the lower bound on the date.
GetAllCatalysts_IncludeExpired(days_ahead) ==
    OrderByDate({i \in DOMAIN catalysts_v2 :
                    catalysts_v2[i].catalyst_date <= Today + days_ahead})

\* get_all_catalysts(days_ahead): the rows dated today .. today + days_ahead.
GetAllCatalysts(days_ahead) ==
    OrderByDate({i \in DOMAIN catalysts_v2 :
                    /\ catalysts_v2[i].catalyst_date >= Today
                    /\ catalysts_v2[i].catalyst_date <= Today + days_ahead})

\* get_user_alerts(user_id, limit): the user's `limit` newest rows.
GetUserAlerts(user_id, limit) ==
    LET mine == {i \in DOMAIN watchlist_alerts : watchlist_alerts[i].user_id = user_id}
        newer(j, i) ==
            \/ watchlist_alerts[j].created_at > watchlist_alerts[i].created_at
            \/ /\ watchlist_alerts[j].created_at = watchlist_alerts[i].created_at
               /\ j > i
    IN {i \in mine : Cardinality({j \in mine : newer(j, i)}) < limit}

\* The lookup never finds an alert.
AlertAlreadySent_Never(user_id, ticker, alert_type, context) == FALSE

\* _alert_already_sent: an alert of the ticker and type newer than 24 hours
\* among the user's newest rows; context is not consulted.
AlertAlreadySent(user_id, ticker, alert_type, context) ==
    \E i \in GetUserAlerts(user_id, AlertsLimit) :
        /\ watchlist_alerts[i].ticker = ticker
        /\ watchlist_alerts[i].alert_type = alert_type
        /\ watchlist_alerts[i].created_at > wclock - DedupWindowHours

RECURSIVE FirstThreshold(_, _, _, _)
\* _check_date_windows, lines 172-200: the threshold loop for one catalyst;
\* <<th>> for the first threshold that fires (then break), <<>> for none.
FirstThreshold(thresholds, days_until, user_id, ticker) ==
    IF thresholds = <<>> THEN <<>>
    ELSE LET threshold == Head(thresholds) IN
         IF days_until <= threshold
         THEN IF AlertAlreadySent(user_id, ticker, "date_window", threshold)
              THEN FirstThreshold(Tail(thresholds), days_until, user_id, ticker)
              ELSE <<threshold>>
         ELSE FirstThreshold(Tail(thresholds), days_until, user_id, ticker)

RECURSIVE CheckDateWindows(_, _, _)
\* _check_date_windows over the rows get_all_catalysts returned.
CheckDateWindows(ticker, user_id, rows) ==
    IF rows = <<>> THEN <<>>
    ELSE LET catalyst == Head(rows)
             days_until == catalyst.catalyst_date - Today
             fired == IF catalyst.ticker = ticker
                      THEN FirstThreshold(Thresholds, days_until, user_id, ticker)
                      ELSE <<>>
         IN [k \in 1..Len(fired) |->
                [user_id |-> user_id, ticker |-> ticker, alert_type |-> "date_window",
                 catalyst_id |-> catalyst.id, severity |-> SeverityMap[fired[k]],
                 days |-> days_until, threshold |-> fired[k]]]
            \o CheckDateWindows(ticker, user_id, Tail(rows))

\* _check_timeline_changes: not implemented, no alert.
CheckTimelineChanges(ticker, user_id) == <<>>

\* get_latest_sec_filing
GetLatestSecFiling(ticker, filing_type) == sec_filings[ticker][filing_type]

RECURSIVE ReadFiling(_, _)
\* _check_red_flags, lines 222-224 and 245: the first filing found, 10-Q first.
ReadFiling(ticker, filing_types) ==
    IF filing_types = <<>> THEN NoFiling
    ELSE LET filing == GetLatestSecFiling(ticker, Head(filing_types)) IN
         IF filing.found THEN filing ELSE ReadFiling(ticker, Tail(filing_types))

\* The filing the check reads shows a cash runway below the minimum.
LowRunway(ticker) ==
    LET cash_runway == ReadFiling(ticker, FilingTypes).cash_runway_months IN
    cash_runway # NoInt /\ cash_runway < MinRunwayMonths

\* ALERT_TRIGGERS["red_flag"]["conditions"]: the conditions a filing meets.
RedFlagConditions(filing) ==
    {c \in {"cash_runway_months", "clinical_hold", "ceo_departure",
            "going_concern_warning"} :
        /\ filing.found
        /\ IF c = "cash_runway_months"
           THEN filing[c] # NoInt /\ filing[c] < MinRunwayMonths
           ELSE filing[c]}

\* _check_red_flags
CheckRedFlags(ticker, user_id) ==
    IF LowRunway(ticker) /\ ~AlertAlreadySent(user_id, ticker, "red_flag", "cash_runway")
    THEN << [user_id |-> user_id, ticker |-> ticker, alert_type |-> "red_flag",
             catalyst_id |-> NoInt, severity |-> "critical",
             days |-> NoInt, threshold |-> NoInt] >>
    ELSE <<>>

RECURSIVE CheckTickers(_, _, _)
\* check_user_watchlist, lines 121-131: the loop over the watchlist.
CheckTickers(tickers, user_id, rows) ==
    IF tickers = <<>> THEN <<>>
    ELSE CheckDateWindows(Head(tickers), user_id, rows)
         \o CheckTimelineChanges(Head(tickers), user_id)
         \o CheckRedFlags(Head(tickers), user_id)
         \o CheckTickers(Tail(tickers), user_id, rows)

\* check_user_watchlist
CheckUserWatchlist(user_id, rows) ==
    CheckTickers(users_local[user_id].watchlist, user_id, rows)

\* get_all_users_with_watchlists
GetAllUsersWithWatchlists == {u \in WatchUserIds : users_local[u].watchlist # <<>>}

RECURSIVE UsersListed(_)
\* get_all_users_with_watchlists: the rows in the order of their ids.
UsersListed(ids) ==
    IF ids = {} THEN <<>>
    ELSE LET u == CHOOSE x \in ids : \A y \in ids : x <= y
         IN <<u>> \o UsersListed(ids \ {u})

\* run_daily_check, lines 319-321: the users check_user_watchlist is called
\* for; the call catches what its body raises, so the loop has no early exit.
UsersProcessed(users, okOf) == users

RECURSIVE CheckUsers(_, _, _)
\* run_daily_check, lines 319-323: the alerts of the users in turn.  A user's
\* alerts depend on the user's own rows only (get_user_alerts), so the rows
\* saved for the users before do not change them.
CheckUsers(users, okOf, rows) ==
    IF users = <<>> THEN <<>>
    ELSE (IF okOf[Head(users)] THEN CheckUserWatchlist(Head(users), rows) ELSE <<>>)
         \o CheckUsers(Tail(users), okOf, rows)

\* create_alert: insert one row; id and created_at are the store's.
CreateAlert(table, alert) ==
    Append(table,
        [id |-> Len(table) + 1, user_id |-> alert.user_id, ticker |-> alert.ticker,
         alert_type |-> alert.alert_type, catalyst_id |-> alert.catalyst_id,
         severity |-> alert.severity, days |-> alert.days,
         threshold |-> alert.threshold,
         created_at |-> CurrentTimestamp, acknowledged_at |-> NoTime])

RECURSIVE SaveAndNotify(_, _, _)
\* run_daily_check, lines 322-323: _save_and_notify for each alert in turn; a
\* create_alert that raises is logged and the alert is dropped (lines 350-371).
SaveAndNotify(table, alerts, oks) ==
    IF alerts = <<>> THEN table
    ELSE SaveAndNotify(IF Head(oks) THEN CreateAlert(table, Head(alerts)) ELSE table,
                       Tail(alerts), Tail(oks))

(* --------------------- WatchlistAgent: the state machine --------------- *)
NoSummary == [users_checked |-> 0, alerts_generated |-> 0, error |-> FALSE]

NoSweep == [at |-> NoTime, rows |-> 0, listed |-> TRUE, processed |-> <<>>, failed |-> {}]

\* The SQLite store before the first sweep, with the given users.
InitWatchWith(users) ==
    /\ wclock = 0
    /\ obs = 1
    /\ halfSteps = 0
    /\ catalysts_v2 \in CatalystV2Inputs
    /\ \E f \in FilingInputs : sec_filings = [t \in Tickers |-> f]
    /\ users_local = users
    /\ watchlist_alerts = <<>>
    /\ summary = NoSummary
    /\ prevSweep = NoSweep
    /\ lastSweep = NoSweep

InitWatch == InitWatchWith(UserRows)

\* The watchlist store while only the saved-search sweep is observed.
WatchIdle ==
    /\ InitWatch
    /\ catalysts_v2 = << [id |-> 1, ticker |-> "ABCD", catalyst_date |-> ObservedDays[1]] >>
    /\ sec_filings = [t \in Tickers |-> [q \in {"10-Q", "10-K"} |-> NoFiling]]

\* Less than a day passes.
HalfDay ==
    /\ halfSteps < MaxHalfSteps
    /\ halfSteps' = halfSteps + 1
    /\ wclock' = wclock + SweepGapHours
    /\ UNCHANGED <<tvars, avars, obs, catalysts_v2, sec_filings, users_local,
                   watchlist_alerts, summary, prevSweep, lastSweep>>

\* Days pass, up to the next observation of the catalyst.
NextObservation ==
    /\ obs < Len(ObservedDays)
    /\ obs' = obs + 1
    /\ wclock' = wclock + 24 * (ObservedDays[obs] - ObservedDays[obs + 1])
    /\ UNCHANGED <<tvars, avars, halfSteps, catalysts_v2, sec_filings, users_local,
                   watchlist_alerts, summary, prevSweep, lastSweep>>

\* run_daily_check, lines 316-342: the users are listed (when the listing
\* raises, the outer except sets summary["error"] and no user is checked);
\* check_user_watchlist builds each user's alerts against the store as it is,
\* [] when it raised; each alert is saved.
RunDailyCheck ==
    /\ \E okList \in Outcomes("users"), rows \in GetAllCatalysts(DaysAhead) :
       \E okOf \in [GetAllUsersWithWatchlists -> Outcomes("user")] :
        LET users == IF okList THEN UsersListed(GetAllUsersWithWatchlists) ELSE <<>>
            done == UsersProcessed(users, okOf)
            alerts == CheckUsers(done, okOf, rows)
        IN
        /\ Len(watchlist_alerts) + Len(alerts) <= MaxAlerts
        /\ \E oks \in [1..Len(alerts) -> Outcomes("save")] :
            watchlist_alerts' = SaveAndNotify(watchlist_alerts, alerts, oks)
        /\ summary' = [users_checked |-> Len(users),
                       alerts_generated |-> Len(alerts),
                       error |-> ~okList]
        /\ lastSweep' = [at |-> wclock, rows |-> Len(watchlist_alerts),
                         listed |-> okList, processed |-> done,
                         failed |-> {u \in Range(done) : ~okOf[u]}]
    /\ prevSweep' = lastSweep
    /\ UNCHANGED <<tvars, avars, wclock, obs, halfSteps, catalysts_v2, sec_filings,
                   users_local>>

\* The update marks every alert of the table.
AcknowledgeAlertRows_All(alert_id) ==
    [i \in DOMAIN watchlist_alerts |->
        [watchlist_alerts[i] EXCEPT !.acknowledged_at = CurrentTimestamp]]

\* SQLiteDB.acknowledge_alert: UPDATE ... SET acknowledged_at =
\* CURRENT_TIMESTAMP WHERE id = ?; no row has the id: nothing changes.
AcknowledgeAlertRows(alert_id) ==
    IF alert_id \in DOMAIN watchlist_alerts
    THEN [watchlist_alerts EXCEPT ![alert_id].acknowledged_at = CurrentTimestamp]
    ELSE watchlist_alerts

\* WatchlistAgent.acknowledge_alert, called with the id of a stored alert or
\* with the next free id.
AcknowledgeAlert ==
    /\ \E alert_id \in 1..(Len(watchlist_alerts) + 1) :
        watchlist_alerts' = AcknowledgeAlertRows(alert_id)
    /\ UNCHANGED <<tvars, avars, wclock, obs, halfSteps, catalysts_v2, sec_filings,
                   users_local, summary, prevSweep, lastSweep>>

(* ====================================================================== *)
(* Part III: the trial manager (src/src/utils/trial_manager.py)            *)
(* ====================================================================== *)
TRIAL_DURATION_DAYS == 7

Emails == {"new@example.com", "nobody@example.com"}

\* get_user found no row; "not self.user" is true of it alone.
NoUser == [id |-> 0, is_active |-> FALSE, trial_start_date |-> NoTime,
           trial_end_date |-> NoTime, trial_converted |-> FALSE]

\* db.create_user stores both trial dates; a row inserted without them has neither.
TrialUserInputs ==
    { [id |-> 1, is_active |-> a, trial_start_date |-> st,
       trial_end_date |-> IF st = NoTime THEN NoTime ELSE st + TRIAL_DURATION_DAYS,
       trial_converted |-> c] :
        a \in BOOLEAN, st \in {NoTime, 0}, c \in BOOLEAN }

\* Status of the latest subscriptions row; NULL when the user has none.
SubscriptionStatuses == {NULL, "active", "canceled"}

NoManager == [user_email |-> NULL, user |-> NoUser]

NoStatus == [is_active |-> FALSE, is_expired |-> FALSE, has_subscription |-> FALSE,
             days_remaining |-> NoInt, hours_remaining |-> NoInt,
             access_level |-> NULL, should_show_paywall |-> FALSE]

\* db.get_user_by_email: SELECT ... WHERE email = %s AND is_active = TRUE.
GetUser(email) ==
    IF users_table[email] # NoUser /\ users_table[email].is_active THEN users_table[email] ELSE NoUser

\* db.get_user_subscription: the latest row of the user, or none.
GetUserSubscription(user_id) == subscriptions[user_id]

IsTrialActive(user, at) ==
    IF user = NoUser \/ user.trial_end_date = NoTime
    THEN FALSE
    ELSE at < user.trial_end_date

IsTrialExpired_After(user, at) ==
    IF user = NoUser \/ user.trial_end_date = NoTime
    THEN FALSE
    ELSE at > user.trial_end_date

IsTrialExpired(user, at) ==
    IF user = NoUser \/ user.trial_end_date = NoTime
    THEN FALSE
    ELSE at >= user.trial_end_date

\* "subscription and subscription['status'] == 'active'": without a row the
\* value is None, which every caller reads as false.
HasActiveSubscription(user) ==
    IF user = NoUser THEN FALSE
    ELSE IF user.trial_converted THEN TRUE
    ELSE /\ GetUserSubscription(user.id) # NULL
         /\ GetUserSubscription(user.id) = "active"

Max0(n) == IF n < 0 THEN 0 ELSE n

GetDaysRemaining(user, at) ==
    IF user = NoUser \/ user.trial_end_date = NoTime THEN 0
    ELSE Max0(user.trial_end_date - at)

GetHoursRemaining(user, at) ==
    IF user = NoUser \/ user.trial_end_date = NoTime THEN 0
    ELSE Max0(24 * (user.trial_end_date - at))

ShouldShowPaywall(user, at) == IsTrialExpired(user, at) /\ ~HasActiveSubscription(user)

GetAccessLevel(user, at) ==
    IF user = NoUser THEN "none"
    ELSE IF HasActiveSubscription(user) \/ IsTrialActive(user, at) THEN "full"
    ELSE "preview"

GetTrialStatusOf(user, at) ==
    [is_active |-> IsTrialActive(user, at),
     is_expired |-> IsTrialExpired(user, at),
     has_subscription |-> HasActiveSubscription(user),
     days_remaining |-> GetDaysRemaining(user, at),
     hours_remaining |-> GetHoursRemaining(user, at),
     access_level |-> GetAccessLevel(user, at),
     should_show_paywall |-> ShouldShowPaywall(user, at)]

\* The account store while the agents are observed.
TrialIdle ==
    /\ tnow = 0
    /\ users_table = [e \in Emails |-> NoUser]
    /\ subscriptions = [i \in {1} |-> NULL]
    /\ trial_mgr = NoManager
    /\ exc = "none"
    /\ workflows = 0
    /\ trial_status = NoStatus

InitTrialStore ==
    /\ tnow = 0
    /\ users_table \in [Emails -> TrialUserInputs \cup {NoUser}]
    /\ users_table["nobody@example.com"] = NoUser
    /\ subscriptions \in [{1} -> SubscriptionStatuses]
    /\ trial_mgr = NoManager
    /\ exc = "none"
    /\ workflows = 0
    /\ trial_status = NoStatus

TrialTick ==
    /\ tnow < MaxTrialDay
    /\ tnow' = tnow + 1
    /\ UNCHANGED <<avars, wvars, users_table, subscriptions, trial_mgr, exc, workflows,
                   trial_status>>

\* The payment webhook writes a new latest subscriptions row.
SubscriptionChange ==
    /\ \E st \in SubscriptionStatuses \ {NULL} :
        /\ subscriptions[1] # st
        /\ subscriptions' = [subscriptions EXCEPT ![1] = st]
    /\ UNCHANGED <<avars, wvars, tnow, users_table, trial_mgr, exc, workflows, trial_status>>

\* TrialManager(user_email): self.user is read once, here.
NewTrialManager ==
    /\ \E email \in Emails :
        trial_mgr' = [user_email |-> email, user |-> GetUser(email)]
    /\ exc' = "none"
    /\ trial_status' = NoStatus
    /\ UNCHANGED <<avars, wvars, tnow, users_table, subscriptions, workflows>>

GetTrialStatus ==
    /\ trial_mgr # NoManager
    /\ trial_status' = GetTrialStatusOf(trial_mgr.user, tnow)
    /\ exc' = "none"
    /\ UNCHANGED <<avars, wvars, tnow, users_table, subscriptions, trial_mgr, workflows>>

\* db.update_user(user_id, **kwargs) takes the fields as keywords; a call that
\* passes them as a second positional argument does not bind.
UpdateUserBinds(positional) == positional = 1

UpdateUser(user_id, fields) ==
    [e \in Emails |->
        IF users_table[e] # NoUser /\ users_table[e].id = user_id
        THEN [f \in DOMAIN users_table[e] |->
                 IF f \in DOMAIN fields THEN fields[f] ELSE users_table[e][f]]
        ELSE users_table[e]]

TrialAlreadyStarted_Never(user) == FALSE

TrialAlreadyStarted(user) == user.trial_start_date # NoTime

\* TrialManager.start_trial.
StartTrial ==
    /\ trial_mgr # NoManager
    /\ IF trial_mgr.user = NoUser \/ TrialAlreadyStarted(trial_mgr.user)
       THEN /\ exc' = "ValueError"
            /\ UNCHANGED <<users_table, trial_mgr, workflows>>
       ELSE IF ~UpdateUserBinds(2)
       THEN /\ exc' = "TypeError"
            /\ UNCHANGED <<users_table, trial_mgr, workflows>>
       ELSE /\ users_table' = UpdateUser(trial_mgr.user.id,
                           [trial_start_date |-> tnow,
                            trial_end_date |-> tnow + TRIAL_DURATION_DAYS])
            /\ trial_mgr' = [trial_mgr EXCEPT !.user =
                               IF users_table'[trial_mgr.user_email] # NoUser
                                  /\ users_table'[trial_mgr.user_email].is_active
                               THEN users_table'[trial_mgr.user_email] ELSE NoUser]
            /\ workflows' = workflows + 1
            /\ exc' = "none"
    /\ UNCHANGED <<avars, wvars, tnow, subscriptions, trial_status>>

\* TrialManager.mark_converted.
MarkConverted ==
    /\ trial_mgr # NoManager
    /\ IF trial_mgr.user = NoUser
       THEN /\ exc' = "ValueError"
            /\ UNCHANGED <<users_table, trial_mgr>>
       ELSE IF ~UpdateUserBinds(2)
       THEN /\ exc' = "TypeError"
            /\ UNCHANGED <<users_table, trial_mgr>>
       ELSE /\ users_table' = UpdateUser(trial_mgr.user.id, [trial_converted |-> TRUE])
            /\ trial_mgr' = [trial_mgr EXCEPT !.user =
                               IF users_table'[trial_mgr.user_email] # NoUser
                                  /\ users_table'[trial_mgr.user_email].is_active
                               THEN users_table'[trial_mgr.user_email] ELSE NoUser]
            /\ exc' = "none"
    /\ UNCHANGED <<avars, wvars, tnow, subscriptions, workflows, trial_status>>

(* ---------------------------- specifications --------------------------- *)
vars == <<avars, wvars, tvars>>

Sweep(w) ==
    \/ StartSweep(w)
    \/ FindMatches(w)
    \/ DedupCheck(w)
    \/ GateCheck(w)
    \/ Dispatch(w)
    \/ LogNotification(w)
    \/ UpdateLastChecked(w)
    \/ FinishSweep(w)

Environment ==
    \/ AddCatalyst
    \/ Tick
    \/ ChannelChange

\* One scheduler: sweeps run one after the other; every store call succeeds.
Init == InitAlert /\ WatchIdle /\ mayFail = {} /\ tier = [u \in UserIds |-> "free"] /\ TrialIdle

Next == Environment \/ Sweep(1)

Spec == Init /\ [][Next]_vars

\* One scheduler; store calls may raise.
InitFault ==
    /\ TrialIdle
    /\ InitAlert
    /\ WatchIdle
    /\ mayFail \in {FaultKinds, FaultKinds \ {"gate"}}
    /\ \A u \in UserIds : prefs[u].quiet_hours_start = NoTime
    /\ tier = [u \in UserIds |-> "free"]

NextFault == AddCatalyst \/ Tick \/ Sweep(1)

SpecFault == InitFault /\ [][NextFault]_vars

\* Two sweeps overlapping in time; every store call succeeds.
InitConc == InitAlert /\ WatchIdle /\ mayFail = {} /\ tier = [u \in UserIds |-> "free"] /\ TrialIdle

NextConc == AddCatalyst \/ \E w \in Workers : Sweep(w)

SpecConc == InitConc /\ [][NextConc]_vars

\* One scheduler; the lookups of the gate may raise, every other store call
\* succeeds.
InitGate ==
    /\ TrialIdle
    /\ InitAlert
    /\ WatchIdle
    /\ mayFail = {"gate"}
    /\ tier = [u \in UserIds |-> "free"]

NextGate == AddCatalyst \/ Tick \/ Sweep(1)

SpecGate == InitGate /\ [][NextGate]_vars

\* One scheduler; the search asks for every channel and the user's tier is
\* any of the tiers; every store call succeeds; providers change state
\* between sweeps.
InitTier ==
    /\ TrialIdle
    /\ InitAlertWith([SearchRows EXCEPT ![1].notification_channels = Channels])
    /\ WatchIdle
    /\ \A u \in UserIds :
            prefs[u].max_alerts_per_day = MaxCap /\ prefs[u].quiet_hours_start = NoTime
    /\ mayFail = {}
    /\ tier \in [UserIds -> Tiers]

\* A provider goes down or comes back between two sweeps.
ChannelChangeBetweenSweeps == pc[1] = "idle" /\ ChannelChange

NextTier == AddCatalyst \/ ChannelChangeBetweenSweeps \/ Sweep(1)

SpecTier == InitTier /\ [][NextTier]_vars

\* One scheduler; the search has any of the query_params; every store call
\* succeeds.
InitMatch ==
    /\ TrialIdle
    /\ \E qp \in QueryParamInputs :
            InitAlertWith([SearchRows EXCEPT ![1].query_params = qp])
    /\ WatchIdle
    /\ \A u \in UserIds :
            prefs[u].max_alerts_per_day = MaxCap /\ prefs[u].quiet_hours_start = NoTime
    /\ mayFail = {}
    /\ tier = [u \in UserIds |-> "free"]

NextMatch == AddCatalyst \/ Sweep(1)

SpecMatch == InitMatch /\ [][NextMatch]_vars

\* users_local with two users who watch ABCD.
BatchUserRows == [u \in WatchUserIds |-> [id |-> u, watchlist |-> <<"ABCD">>]]

\* The calls that may raise in the batch specification: the listing of the
\* units of work and the processing of one unit, for each of the two sweeps.
BatchFaultKinds == {"fetch", "search", "users", "user"}

\* Both sweeps with two units of work each: two active searches, two users
\* with a watchlist and a filing that shows a low cash runway.
InitBatch ==
    /\ TrialIdle
    /\ InitAlertWith([SearchRows EXCEPT ![2].active = TRUE])
    /\ \A u \in UserIds :
            prefs[u].max_alerts_per_day = MaxCap /\ prefs[u].quiet_hours_start = NoTime
    /\ tier = [u \in UserIds |-> "free"]
    /\ mayFail = BatchFaultKinds
    /\ InitWatchWith(BatchUserRows)
    /\ catalysts_v2 = << [id |-> 1, ticker |-> "ABCD", catalyst_date |-> ObservedDays[1]] >>
    /\ \A t \in Tickers :
            /\ RedFlagConditions(ReadFiling(t, FilingTypes)) = {"cash_runway_months"}
            /\ ~sec_filings[t]["10-K"].found

\* The daily cron job runs the watchlist sweep once, before the saved-search
\* scheduler starts; the two agents share no store.
FirstDailyCheck ==
    /\ lastSweep = NoSweep
    /\ catalysts = <<>>
    /\ \A w \in Workers : pc[w] = "idle"
    /\ \A s \in SearchIds : saved_searches[s].last_checked = NoTime
    /\ RunDailyCheck

\* The ingestion pipeline inserts a catalyst between two sweeps.
AddCatalystBetweenSweeps == pc[1] = "idle" /\ AddCatalyst

NextBatch == FirstDailyCheck \/ AddCatalystBetweenSweeps \/ Sweep(1)

SpecBatch == InitBatch /\ [][NextBatch]_vars

\* The calls that may raise in the summary specification: the writes of the
\* two record tables.
SummaryFaultKinds == {"log", "save"}

\* Both sweeps, each with its record table; the writes may raise.
InitSummary ==
    /\ TrialIdle
    /\ InitAlert
    /\ \A u \in UserIds :
            prefs[u].max_alerts_per_day = MaxCap /\ prefs[u].quiet_hours_start = NoTime
    /\ tier = [u \in UserIds |-> "free"]
    /\ mayFail = SummaryFaultKinds
    /\ InitWatch

NextSummary == FirstDailyCheck \/ AddCatalystBetweenSweeps \/ Sweep(1)

SpecSummary == InitSummary /\ [][NextSummary]_vars

\* The watchlist store of a user who watches ABCD and EFGH, one hour after a
\* sweep recorded the red flag of ABCD: n catalysts of EFGH were loaded since
\* and a second sweep has just recorded one date_window alert for each.
AfterSecondSweep(n) ==
    /\ wclock = 1
    /\ obs = 1
    /\ halfSteps = 0
    /\ catalysts_v2 = [i \in 1..n |->
                            [id |-> i, ticker |-> "EFGH", catalyst_date |-> 1 + (i % DaysAhead)]]
    /\ sec_filings = [t \in Tickers |->
                            [q \in {"10-Q", "10-K"} |->
                                IF t = "ABCD" /\ q = "10-Q"
                                THEN Filing(4, FALSE, FALSE, FALSE) ELSE NoFiling]]
    /\ users_local = [u \in WatchUserIds |->
                            [id |-> u,
                             watchlist |-> IF u = 1 THEN <<"ABCD", "EFGH">> ELSE <<>>]]
    /\ watchlist_alerts =
            [i \in 1..(n + 1) |->
                IF i = 1
                THEN [id |-> 1, user_id |-> 1, ticker |-> "ABCD", alert_type |-> "red_flag",
                      catalyst_id |-> NoInt, severity |-> "critical", days |-> NoInt,
                      threshold |-> NoInt, created_at |-> 0, acknowledged_at |-> NoTime]
                ELSE [id |-> i, user_id |-> 1, ticker |-> "EFGH",
                      alert_type |-> "date_window", catalyst_id |-> i - 1,
                      severity |-> SeverityMap[Thresholds[1]],
                      days |-> 1 + ((i - 1) % DaysAhead), threshold |-> Thresholds[1],
                      created_at |-> 1, acknowledged_at |-> NoTime]]
    /\ summary = [users_checked |-> 1, alerts_generated |-> n, error |-> FALSE]
    /\ prevSweep = [at |-> 0, rows |-> 0, listed |-> TRUE, processed |-> <<1>>,
                    failed |-> {}]
    /\ lastSweep = [at |-> 1, rows |-> 1, listed |-> TRUE, processed |-> <<1>>,
                    failed |-> {}]

\* The dedup lookup over alert tables of every size up to MaxOtherAlerts other
\* alerts; the saved-search store is idle.
InitLimit ==
    /\ TrialIdle
    /\ InitAlert
    /\ \A u \in UserIds :
            prefs[u].max_alerts_per_day = MaxCap /\ prefs[u].quiet_hours_start = NoTime
    /\ mayFail = {}
    /\ tier = [u \in UserIds |-> "free"]
    /\ \E n \in 0..MaxOtherAlerts : AfterSecondSweep(n)

NextLimit == HalfDay \/ NextObservation

SpecLimit == InitLimit /\ [][NextLimit]_vars

\* One scheduler; the users pause and resume their searches between sweeps;
\* every store call succeeds.
InitPause ==
    /\ TrialIdle
    /\ InitAlert
    /\ WatchIdle
    /\ \A u \in UserIds :
            prefs[u].max_alerts_per_day = MaxCap /\ prefs[u].quiet_hours_start = NoTime
    /\ mayFail = {}
    /\ tier = [u \in UserIds |-> "free"]

ToggleSearchBetweenSweeps == pc[1] = "idle" /\ ToggleSearch

NextPause == AddCatalyst \/ ToggleSearchBetweenSweeps \/ Sweep(1)

SpecPause == InitPause /\ [][NextPause]_vars

\* The saved-search store is as the agent's construction leaves it.
AlertUntouched ==
    /\ catalysts = <<>>
    /\ \A w \in Workers : pc[w] = "idle"
    /\ \A s \in SearchIds : saved_searches[s].last_checked = NoTime

\* Both stores with their readers: the sweeps create records and the users
\* acknowledge them.  The watchlist store is used first; the two agents share
\* no store.
InitAck ==
    /\ TrialIdle
    /\ InitAlert
    /\ \A u \in UserIds :
            prefs[u].max_alerts_per_day = MaxCap /\ prefs[u].quiet_hours_start = NoTime
    /\ tier = [u \in UserIds |-> "free"]
    /\ mayFail = {}
    /\ InitWatch
    /\ Len(catalysts_v2) = 2 /\ catalysts_v2[2].ticker = "ABCD"
    /\ \A t \in Tickers :
            /\ RedFlagConditions(ReadFiling(t, FilingTypes)) = {"cash_runway_months"}
            /\ ~sec_filings[t]["10-K"].found

WatchlistUse == AlertUntouched /\ (RunDailyCheck \/ AcknowledgeAlert)

NextAck ==
    \/ WatchlistUse
    \/ AddCatalystBetweenSweeps
    \/ Sweep(1)
    \/ AcknowledgeNotification

SpecAck == InitAck /\ [][NextAck]_vars

\* The account pages, with the agents idle.
InitTrial ==
    /\ InitTrialStore
    /\ InitAlert
    /\ \A u \in UserIds : prefs[u].max_alerts_per_day = MaxCap /\ prefs[u].quiet_hours_start = NoTime
    /\ tier = [u \in UserIds |-> "free"]
    /\ mayFail = {}
    /\ WatchIdle

NextTrial ==
    \/ TrialTick
    \/ SubscriptionChange
    \/ NewTrialManager
    \/ GetTrialStatus
    \/ StartTrial
    \/ MarkConverted

SpecTrial == InitTrial /\ [][NextTrial]_vars

\* The watchlist sweep, run by one scheduler; the saved-search store is idle.
InitWatchSweep ==
    /\ TrialIdle
    /\ InitWatch
    /\ InitAlert
    /\ \A u \in UserIds :
            prefs[u].max_alerts_per_day = 1 /\ prefs[u].quiet_hours_start = NoTime
    /\ mayFail = {}
    /\ tier = [u \in UserIds |-> "free"]

NextWatch == HalfDay \/ NextObservation \/ RunDailyCheck

SpecWatch == InitWatchSweep /\ [][NextWatch]_vars

(* ------------------------------ properties ----------------------------- *)
Count(search_id, catalyst_id) == Cardinality(NotificationsOf(search_id, catalyst_id))

\* The feed rows with a ticker that satisfy the search's criteria.
Eligible(search_id) == FindNewMatches(saved_searches[search_id].query_params, NoTime)

Delivered(search_id, catalyst_id) ==
    \E i \in DOMAIN dispatched :
        dispatched[i].search = search_id /\ dispatched[i].catalyst = catalyst_id

InPass(w) == pc[w] \in {"send", "gate", "dispatch", "log", "update"}

\* C1: for an active search S and a catalyst C with a ticker that matches S,
\* exactly one AlertNotification (S, C) is ever created: never two, and by the
\* end of a pass over S during which the gate and the e-mail channel were
\* open throughout, every such C that was in the feed when S was queried has
\* its one notification.
C1_ExactlyOne ==
    /\ \A s \in SearchIds : \A c \in 1..Len(catalysts) : Count(s, c) <= 1
    /\ \A w \in Workers :
        (pc[w] = "update" /\ fav[w]) =>
            \A c \in Eligible(cur[w].id) : c <= qlen[w] => Count(cur[w].id, c) = 1

C4_AtMostOnePerPair ==
    \A s \in SearchIds : \A c \in 1..Len(catalysts) :
        Cardinality(NotificationsOf(s, c)) < 2

\* C7: a match suppressed by quiet hours in an earlier pass has been
\* dispatched by the end of a later pass that ran outside quiet hours with the
\* cap not reached and the e-mail channel working.
C7_EligibleAfterQuietHours ==
    \A w \in Workers :
        (pc[w] = "update" /\ fav[w]) =>
            \A p \in pending :
                (p.search = cur[w].id /\ p.why = "quiet")
                    => Delivered(p.search, p.catalyst)

\* C8: a match whose dispatch failed on every channel in an earlier pass (and
\* that was not delivered since) is matched again by the next pass over its search.
C8_RetriedNextSweep ==
    \A w \in Workers :
        InPass(w) =>
            \A p \in pending :
                (p.search = cur[w].id /\ p.why = "failed"
                    /\ ~Delivered(p.search, p.catalyst))
                    => p.catalyst \in matched[w]

\* C9: a match the gate denied (quiet hours or cap reached) in the current
\* pass has no channel send and no AlertNotification.
C9_DeniedSendsNothing ==
    \A w \in Workers : \A r \in refused[w] :
        r.why \in {"quiet", "cap"} =>
            /\ ~Delivered(cur[w].id, r.catalyst)
            /\ Count(cur[w].id, r.catalyst) = 0

\* C9 witness: the pass is over, one match was denied for quiet hours or for
\* the cap, and another match of the same pass was delivered.
C9_Witness ==
    \E w \in Workers :
        /\ pc[w] = "update"
        /\ \E r \in refused[w] : r.why \in {"quiet", "cap"}
        /\ \E c \in matched[w] : Delivered(cur[w].id, c)

DispatchedOn(user_id, day) ==
    {i \in DOMAIN dispatched :
        dispatched[i].user_id = user_id /\ DayOf(dispatched[i].at) = day}

\* C10: when the gate lookups cannot fail, the notifications dispatched to a
\* user within one day never exceed the user's max_alerts_per_day.
C10_DailyCap ==
    "gate" \notin mayFail =>
        \A u \in UserIds : \A d \in 0..DayOf(MaxTime) :
            Cardinality(DispatchedOn(u, d)) <= prefs[u].max_alerts_per_day

(* ------------------------- watchlist properties ------------------------ *)
AlertsOf(user_id, ticker, alert_type) ==
    SelectSeq(watchlist_alerts,
        LAMBDA a : a.user_id = user_id /\ a.ticker = ticker /\ a.alert_type = alert_type)

CatalystsOf(ticker) == {i \in DOMAIN catalysts_v2 : catalysts_v2[i].ticker = ticker}

\* C2: with a single catalyst of a watched ticker, the date_window alerts of
\* (user, ticker) are at most four; the k-th of them is the alert of the k-th
\* threshold of 90, 30, 14, 7, fired with the days-until at or below that
\* threshold and carrying that threshold's severity (info, info, warning,
\* critical).
C2_ThresholdStaircase ==
    \A u \in GetAllUsersWithWatchlists : \A t \in Range(users_local[u].watchlist) :
        Cardinality(CatalystsOf(t)) = 1 =>
            LET dw == AlertsOf(u, t, "date_window") IN
            /\ Len(dw) <= Len(Thresholds)
            /\ \A k \in 1..Len(dw) :
                k <= Len(Thresholds) =>
                    /\ dw[k].threshold = Thresholds[k]
                    /\ dw[k].severity = SeverityMap[Thresholds[k]]
                    /\ dw[k].days <= Thresholds[k]

\* C5: no two date_window alerts are persisted for the same
\* (user, ticker, threshold).
C5_OnePerThreshold ==
    \A i \in DOMAIN watchlist_alerts : \A j \in DOMAIN watchlist_alerts :
        (/\ i # j
         /\ watchlist_alerts[i].alert_type = "date_window"
         /\ watchlist_alerts[j].alert_type = "date_window"
         /\ watchlist_alerts[i].user_id = watchlist_alerts[j].user_id
         /\ watchlist_alerts[i].ticker = watchlist_alerts[j].ticker)
            => watchlist_alerts[i].threshold # watchlist_alerts[j].threshold

\* The red_flag alerts of (user, ticker) at the row positions in S.
RedFlags(user_id, ticker, S) ==
    {i \in S : /\ watchlist_alerts[i].user_id = user_id
               /\ watchlist_alerts[i].ticker = ticker
               /\ watchlist_alerts[i].alert_type = "red_flag"}

\* The last two sweeps ran less than 24 hours apart.
TwoSweepsWithinADay ==
    /\ prevSweep.at # NoTime
    /\ lastSweep.at - prevSweep.at < 24

PermittedChannels(user_tier) == IF user_tier = "pro" THEN Channels ELSE {"email"}

\* The sends of the current pass that sent nothing.
FailedSends(w) == {r \in refused[w] : r.why = "failed"}

\* C11: for a user whose tier is not "pro", no send_notification call invokes
\* the SMS or the Slack send, and the sent-channel list and the channels_used
\* of every AlertNotification hold at most "email".
C11_TierGating ==
    \A u \in UserIds :
        tier[u] # "pro" =>
            /\ \A i \in DOMAIN dispatched :
                dispatched[i].user_id = u =>
                    /\ dispatched[i].attempted \subseteq {"email"}
                    /\ dispatched[i].channels \subseteq {"email"}
            /\ \A w \in Workers :
                cur[w].user_id = u =>
                    /\ sent_channels[w] \subseteq {"email"}
                    /\ \A r \in refused[w] : r.attempted \subseteq {"email"}
            /\ \A i \in DOMAIN alert_notifications :
                alert_notifications[i].user_id = u =>
                    alert_notifications[i].channels_used \subseteq {"email"}

\* C11 witness: a starter-tier user asked for all three channels, SMS and
\* Slack were working, and the notification went out by e-mail alone.
C11_Witness ==
    \E i \in DOMAIN alert_notifications :
        /\ tier[alert_notifications[i].user_id] = "starter"
        /\ saved_searches[alert_notifications[i].saved_search_id].notification_channels
                = Channels
        /\ {"sms", "slack"} \subseteq dispatched[i].up
        /\ alert_notifications[i].channels_used = {"email"}

\* C17: in every send_notification call that reaches the sends, the channels
\* attempted are exactly the requested channels the tier permits, whatever
\* the other sends returned, and a channel is missing from the sent list only
\* because its own send failed.
C17_ChannelsIsolated ==
    /\ \A i \in DOMAIN dispatched :
        /\ dispatched[i].attempted =
                saved_searches[dispatched[i].search].notification_channels
                    \cap PermittedChannels(GetUserTier(dispatched[i].user_id))
        /\ dispatched[i].channels = dispatched[i].attempted \cap dispatched[i].up
    /\ \A w \in Workers : \A r \in FailedSends(w) :
        r.attempted = cur[w].notification_channels
                        \cap PermittedChannels(GetUserTier(cur[w].user_id))

\* C17 witness: the e-mail send failed and a later channel of the same call
\* was attempted and sent.
C17_Witness ==
    \E i \in DOMAIN dispatched :
        /\ "email" \in dispatched[i].attempted
        /\ "email" \notin dispatched[i].up
        /\ dispatched[i].channels \cap {"sms", "slack"} # {}

C12_GateFailsOpen ==
    \A w \in Workers :
        gateErr[w] =>
            /\ pc[w] = "dispatch"
            /\ matches[w] # <<>>
            /\ \A r \in refused[w] : r.catalyst # Head(matches[w])

\* C12 witness: the rate-limit lookup raised for a user whose daily cap was
\* reached, and the notification is at the sends.
C12_Witness ==
    \E w \in Workers :
        /\ gateErr[w]
        /\ pc[w] = "dispatch"
        /\ ~CanReceiveAlert(cur[w].user_id)

\* C13: a sweep during which a caught error occurred does not return an error
\* count of zero: when the loop is over and a send_notification call of the
\* sweep failed on every channel it attempted, or a record of a counted
\* notification was not written, stats.errors is positive.
C13_ErrorsCounted ==
    \A w \in Workers :
        (/\ pc[w] = "loop"
         /\ queue[w] = <<>>
         /\ \/ FailedSends(w) # {}
            \/ stats[w].notifications_sent
                    > Len(alert_notifications) - baseLen[w].notifications)
            => stats[w].errors > 0

\* C14: when the list of the units of work cannot be fetched the sweep
\* processes no unit and its summary reports the failure.  A saved-search
\* sweep whose loop is over without a search checked, while active searches
\* exist, has a positive error count; a watchlist sweep whose listing raised
\* saved no alert and returns an error message.
C14_ListFailureReported ==
    /\ \A w \in Workers :
        (/\ pc[w] = "loop"
         /\ queue[w] = <<>>
         /\ stats[w].searches_checked = 0
         /\ FetchActiveSearches(SearchIds) # <<>>)
            => stats[w].errors > 0
    /\ (lastSweep.at # NoTime /\ ~lastSweep.listed) =>
            /\ summary.error
            /\ lastSweep.processed = <<>>
            /\ Len(watchlist_alerts) = lastSweep.rows

\* The searches a sweep fetched that did not raise.
Unraised(w) ==
    {s \in SearchIds : saved_searches[s].active /\ s \notin raised[w]}

\* The rows the last watchlist sweep saved for a user.
SavedFor(u) ==
    {i \in (lastSweep.rows + 1)..Len(watchlist_alerts) : watchlist_alerts[i].user_id = u}

\* C15: one unit's failure does not abort the batch.  In the saved-search
\* sweep every search that raised is counted in stats.errors, and when the
\* loop is over after a raise every fetched search was begun and every search
\* that did not raise has a last_checked not older than the sweep's start.  In
\* the watchlist sweep, after a user whose check raised, every listed user was
\* processed and the alerts that were due for the other users are saved.
C15_UnitFailureIsolated ==
    /\ \A w \in Workers :
        /\ pc[w] # "idle" => stats[w].errors = Cardinality(raised[w])
        /\ (pc[w] = "loop" /\ queue[w] = <<>> /\ raised[w] # {}) =>
                /\ stats[w].searches_checked = Len(FetchActiveSearches(SearchIds))
                /\ \A s \in Unraised(w) :
                        saved_searches[s].last_checked >= 2 * baseLen[w].feed + 1
    /\ lastSweep.failed # {} =>
            /\ lastSweep.processed = UsersListed(GetAllUsersWithWatchlists)
            /\ \A u \in lastSweep.failed : SavedFor(u) = {}
            /\ \A u \in Range(lastSweep.processed) \ lastSweep.failed :
                    \A t \in Range(users_local[u].watchlist) :
                        LowRunway(t) => RedFlags(u, t, SavedFor(u)) # {}

\* C15 witness: the first user's check raised in the watchlist sweep and the
\* second user's alert was saved; in the saved-search sweep the first search
\* raised and a match of the second search was notified.
C15_Witness ==
    /\ lastSweep.failed = {1}
    /\ SavedFor(2) # {}
    /\ \E w \in Workers :
        /\ pc[w] = "loop"
        /\ queue[w] = <<>>
        /\ raised[w] = {1}
        /\ stats[w].errors = 1
        /\ stats[w].notifications_sent > 0
        /\ \E i \in DOMAIN alert_notifications :
                alert_notifications[i].saved_search_id = 2

RedFlagsBefore(u, t) ==
    {i \in RedFlags(u, t, 1..lastSweep.rows) :
        watchlist_alerts[i].created_at > lastSweep.at - DedupWindowHours}

\* C19: a sweep that checked a watched ticker with no red_flag alert of the
\* user and ticker in the dedup window saved one red_flag alert of severity
\* critical for each red-flag condition the filing read for the ticker meets
\* (cash runway below 6 months, clinical hold, CEO departure, going-concern
\* warning), and none when there is no filing.
C19_RedFlagPerCondition ==
    \A u \in Range(lastSweep.processed) \ lastSweep.failed :
        \A t \in Range(users_local[u].watchlist) :
            RedFlagsBefore(u, t) = {} =>
                /\ Cardinality(RedFlags(u, t, SavedFor(u)))
                        = Cardinality(RedFlagConditions(ReadFiling(t, FilingTypes)))
                /\ \A i \in RedFlags(u, t, SavedFor(u)) :
                        watchlist_alerts[i].severity = "critical"

(* -------------------------------- matching ----------------------------- *)
\* The catalysts among the first n of the feed that the criteria select: a
\* ticker, created_at not before last_checked, and every specified filter,
\* the therapeutic area being a substring of the indication.
Selected(criteria, last_checked, n) ==
    {i \in 1..n :
        LET c == catalysts[i] IN
        /\ c.ticker # NULL
        /\ (last_checked # NoTime => c.created_at >= last_checked)
        /\ (criteria.phase # "" => c.phase = criteria.phase)
        /\ (criteria.max_market_cap # 0 => c.market_cap < criteria.max_market_cap)
        /\ (criteria.min_market_cap # 0 => c.market_cap >= criteria.min_market_cap)
        /\ (criteria.therapeutic_area # <<>>
                => ILikeContains(c.indication, criteria.therapeutic_area))
        /\ (criteria.min_enrollment # 0 => c.enrollment >= criteria.min_enrollment)
        /\ (criteria.completion_date_start # 0
                => c.completion_date >= criteria.completion_date_start)
        /\ (criteria.completion_date_end # 0
                => c.completion_date <= criteria.completion_date_end)}

\* C20: find_new_matches returns exactly the catalysts of the feed that have a
\* ticker, were created at or after last_checked and satisfy every specified
\* filter, all of them, in ascending order of completion date; and no
\* notification is dispatched for a catalyst without a ticker.
C20_ExactMatches ==
    /\ \A w \in Workers :
        InPass(w) =>
            /\ matched[w] = Selected(cur[w].query_params, cur[w].last_checked, qlen[w])
            /\ Range(matches[w]) \subseteq matched[w]
            /\ \A i, j \in DOMAIN matches[w] :
                    i < j => catalysts[matches[w][i]].completion_date
                                <= catalysts[matches[w][j]].completion_date
    /\ \A i \in DOMAIN dispatched : catalysts[dispatched[i].catalyst].ticker # NULL

(* ------------------------------ audit records -------------------------- *)
\* An AlertNotification without its acknowledged marker.
NotificationBody(r) == [r EXCEPT !.user_acknowledged = FALSE, !.acknowledged_at = NoTime]

\* A watchlist alert without its acknowledged marker.
AlertBody(r) == [r EXCEPT !.acknowledged_at = NoTime]

\* The records whose acknowledged marker a step changes.
NotificationsMarked ==
    {i \in DOMAIN alert_notifications :
        alert_notifications'[i] # alert_notifications[i]}

AlertsMarked ==
    {i \in DOMAIN watchlist_alerts : watchlist_alerts'[i] # watchlist_alerts[i]}

\* C21: no step deletes or rewrites an AlertNotification or a watchlist alert:
\* the tables only grow and a stored record changes in its acknowledged marker
\* alone; a step that changes a marker changes the marker of one record, adds
\* no record and leaves the other table alone; and a record that is
\* acknowledged stays acknowledged.
C21_AppendOnly ==
    [][/\ Len(alert_notifications') >= Len(alert_notifications)
       /\ Len(watchlist_alerts') >= Len(watchlist_alerts)
       /\ \A i \in DOMAIN alert_notifications :
            /\ NotificationBody(alert_notifications'[i])
                    = NotificationBody(alert_notifications[i])
            /\ alert_notifications[i].user_acknowledged
                    => alert_notifications'[i].user_acknowledged
       /\ \A i \in DOMAIN watchlist_alerts :
            /\ AlertBody(watchlist_alerts'[i]) = AlertBody(watchlist_alerts[i])
            /\ watchlist_alerts[i].acknowledged_at # NoTime
                    => watchlist_alerts'[i].acknowledged_at # NoTime
       /\ Cardinality(NotificationsMarked) + Cardinality(AlertsMarked) <= 1
       /\ NotificationsMarked \cup AlertsMarked # {} =>
            /\ Len(alert_notifications') = Len(alert_notifications)
            /\ Len(watchlist_alerts') = Len(watchlist_alerts)]_vars

\* C21 witness: in each table one record is acknowledged and a record created
\* with it or after it is still unread.
C21_Witness ==
    /\ \E i, j \in DOMAIN watchlist_alerts :
        /\ i < j
        /\ watchlist_alerts[i].acknowledged_at # NoTime
        /\ watchlist_alerts[j].acknowledged_at = NoTime
    /\ \E i, j \in DOMAIN alert_notifications :
        /\ i < j
        /\ alert_notifications[i].user_acknowledged
        /\ ~alert_notifications[j].user_acknowledged


(* ------------------------------ the trial ------------------------------ *)
\* C22: the status get_trial_status reports is consistent. Without a user every
\* flag is false and the access level is "none"; for a user with a
\* trial_end_date exactly one of is_active and is_expired holds; the paywall is
\* shown exactly when the trial is expired and there is no active subscription;
\* for a user the access level is "full" exactly when there is an active
\* subscription or an active trial, and "preview" otherwise.
C22_StatusConsistent ==
    trial_status # NoStatus =>
        LET user == trial_mgr.user
            st == trial_status
        IN  /\ user = NoUser =>
                    /\ ~st.is_active /\ ~st.is_expired /\ ~st.has_subscription
                    /\ ~st.should_show_paywall
                    /\ st.access_level = "none"
            /\ (user # NoUser /\ user.trial_end_date # NoTime) =>
                    (st.is_active # st.is_expired)
            /\ st.should_show_paywall = (st.is_expired /\ ~st.has_subscription)
            /\ user # NoUser =>
                    /\ (st.access_level = "full") = (st.has_subscription \/ st.is_active)
                    /\ st.access_level \in {"full", "preview"}

\* The status of a user was read at the very end of the trial, without a
\* subscription: the paywall shows and the access is a preview.
C22_Witness ==
    /\ trial_status # NoStatus
    /\ trial_mgr.user # NoUser
    /\ trial_mgr.user.trial_end_date = tnow
    /\ trial_status.is_expired
    /\ trial_status.should_show_paywall
    /\ trial_status.access_level = "preview"

\* C23: a trial is started at most once. start_trial on a manager without a user,
\* or whose user has a trial_start_date, raises ValueError, writes no user row and
\* triggers no workflow; and trial dates that are set never change.
C23_StartOnce ==
    [][ /\ (StartTrial /\ (trial_mgr.user = NoUser
                            \/ trial_mgr.user.trial_start_date # NoTime)) =>
                /\ exc' = "ValueError"
                /\ users_table' = users_table
                /\ workflows' = workflows
        /\ \A e \in Emails :
                (users_table[e] # NoUser /\ users_table[e].trial_start_date # NoTime) =>
                    /\ users_table'[e] # NoUser
                    /\ users_table'[e].trial_start_date = users_table[e].trial_start_date
                    /\ users_table'[e].trial_end_date = users_table[e].trial_end_date
      ]_vars

\* start_trial was refused for a user whose trial had started.
C23_Witness ==
    /\ exc = "ValueError"
    /\ trial_mgr.user # NoUser
    /\ trial_mgr.user.trial_start_date # NoTime
    /\ users_table[trial_mgr.user_email].trial_start_date = trial_mgr.user.trial_start_date

(* ------------------------------ dedup key ------------------------------ *)
\* C24: the dedup lookup is keyed by its context. For every user, ticker and
\* threshold, _alert_already_sent(user, ticker, "date_window", threshold) is
\* true only if a date_window alert of the user and ticker for that same
\* threshold was created within the window.
C24_KeyedByContext ==
    \A u \in WatchUserIds : \A t \in Tickers : \A th \in Range(Thresholds) :
        AlertAlreadySent(u, t, "date_window", th) =>
            \E i \in DOMAIN watchlist_alerts :
                /\ watchlist_alerts[i].user_id = u
                /\ watchlist_alerts[i].ticker = t
                /\ watchlist_alerts[i].alert_type = "date_window"
                /\ watchlist_alerts[i].threshold = th
                /\ watchlist_alerts[i].created_at > wclock - DedupWindowHours

ActiveSearches == {s \in SearchIds : saved_searches[s].active}

RowsOfSearch(search_id) ==
    {i \in DOMAIN alert_notifications : alert_notifications[i].saved_search_id = search_id}

DispatchedFor(search_id) ==
    {i \in DOMAIN dispatched : dispatched[i].search = search_id}

\* C26: a paused saved search is not part of the sweep. No step taken while a
\* search is paused dispatches a notification for it, writes an
\* alert_notifications row for it or changes its last_checked; the search a
\* sweep is working on is an active one, and searches_checked never exceeds
\* the number of active searches.
C26_PausedSkipped ==
    [][ /\ \A s \in SearchIds :
              (~saved_searches[s].active /\ ~saved_searches'[s].active) =>
                  /\ saved_searches'[s] = saved_searches[s]
                  /\ Cardinality({i \in DOMAIN alert_notifications' :
                          alert_notifications'[i].saved_search_id = s})
                        = Cardinality(RowsOfSearch(s))
                  /\ Cardinality({i \in DOMAIN dispatched' : dispatched'[i].search = s})
                        = Cardinality(DispatchedFor(s))
        /\ \A w \in Workers :
              /\ cur'[w] # NoSearch => saved_searches'[cur'[w].id].active
              /\ stats'[w].searches_checked
                    <= Cardinality({s \in SearchIds : saved_searches'[s].active})
      ]_vars

\* A sweep over the other search has completed while search 2 was paused with
\* a catalyst of the feed matching it, and search 2 has nothing recorded.
C26_Witness ==
    /\ settled
    /\ RowsOfSearch(1) # {}
    /\ ~saved_searches[2].active
    /\ FindNewMatches(saved_searches[2].query_params, saved_searches[2].last_checked) # {}
    /\ RowsOfSearch(2) = {}
    /\ DispatchedFor(2) = {}

(* ------------------------------- windows ------------------------------- *)
\* C27: no matching catalyst falls between two windows. Every catalyst with a
\* ticker that matches an active search either has been returned by
\* find_new_matches (it is among the matches of the running pass or has its
\* notification), or is still inside the window of the next query: its
\* created_at is not before the search's last_checked.
C27_NoGapBetweenWindows ==
    \A s \in SearchIds :
        saved_searches[s].active =>
            \A c \in Eligible(s) :
                \/ Count(s, c) >= 1
                \/ \E w \in Workers : cur[w] # NoSearch /\ cur[w].id = s /\ c \in matched[w]
                \/ catalysts[c].created_at >= saved_searches[s].last_checked

(* ------------------------------- delivery ------------------------------ *)
\* C28: at-most-once delivery. Over any sequence of sweeps, store failures
\* included, no channel delivers the notification of the same
\* (search, catalyst) successfully more than once.
C28_AtMostOnceDelivery ==
    \A i \in DOMAIN dispatched : \A j \in DOMAIN dispatched :
        (/\ i # j
         /\ dispatched[i].search = dispatched[j].search
         /\ dispatched[i].catalyst = dispatched[j].catalyst)
            => dispatched[i].channels \cap dispatched[j].channels = {}

(* ------------------------------- summaries ----------------------------- *)
\* The summary of the saved-search sweep agrees with its table: when the loop
\* is over, notifications_sent is the number of alert_notifications rows the
\* run created.
NotificationsSentAgrees ==
    \A w \in Workers :
        (pc[w] = "loop" /\ queue[w] = <<>>) =>
            stats[w].notifications_sent
                = Len(alert_notifications) - baseLen[w].notifications

\* The summary of the watchlist sweep agrees with its table: alerts_generated
\* is the number of watchlist_alerts rows the run persisted.
AlertsGeneratedAgrees ==
    lastSweep.at # NoTime =>
        summary.alerts_generated = Len(watchlist_alerts) - lastSweep.rows

\* C29: the sweep summary agrees with the store, for both sweeps.
C29_SummaryAgreesWithStore == NotificationsSentAgrees /\ AlertsGeneratedAgrees

(* ------------------------------ lookup limit --------------------------- *)
\* C30: the dedup lookup does not depend on how many other alerts the user
\* has. Whenever an alert of a user, ticker and alert type was created within
\* the last 24 hours, _alert_already_sent is true for that user, ticker and
\* type.
C30_LookupIndependentOfCount ==
    \A i \in DOMAIN watchlist_alerts :
        watchlist_alerts[i].created_at > wclock - DedupWindowHours =>
            AlertAlreadySent(watchlist_alerts[i].user_id, watchlist_alerts[i].ticker,
                             watchlist_alerts[i].alert_type, NoInt)

====
